---- MODULE Spec2Model ----
(***************************************************************************)
(* The avatar server of unnamed/part_000 (the current server.js): the      *)
(* in-memory imageCache, the PocketBase records it derives from, and the   *)
(* request handlers that read and invalidate it.  A handler is split at    *)
(* its awaits: every action is the synchronous run between two awaits.     *)
(***************************************************************************)
EXTENDS Integers, Sequences, FiniteSets, TLC

\* ------------------------------------------------------------------ bounds
\* requests the clients send in one run
MaxReq == 3
\* the number of requests of a run in which every route is open
MaxLive == 2

\* ------------------------------------------------------------------ inputs
\* ids of the user records PocketBase holds; "u1" is a proper prefix of "u12"
RecordIds == {"u1", "u12"}
\* the :userId values clients put in the URL
UrlIds == RecordIds
\* the ?size= values clients send ("thumb" is not a key of the sizes table)
SizesAsked == {"medium", "original", "thumb"}
\* the Authorization headers clients send: "" is a missing one
AdminToken == "tok-u12"
\* the tokens of the clients of the account routes: none, and one for a user
\* with each value the admin field takes
AuthTokens == {"", "tok-u1", AdminToken, "tok-u3", "tok-u4", "tok-u5"}
Tokens == {"", "tok-u1", AdminToken}
\* what upload.single('avatar') finds in the body
Files == {"none", "image", "text"}
\* ids of the image records PocketBase holds
ImageIds == {"m1"}
\* the values NODE_ENV is started with
NodeEnvs == {"production", "development"}
\* the ?download= values clients send
Downloads == {"true", "false"}
\* the id PocketBase gives the user that registers
NewUserId == "u2"
\* the ids and sizes the clients of the public routes ask for: a user, the
\* user that registers, and a path segment that reads like the key of an image
PublicIds == {"u1", NewUserId, "image-m1"}
PublicSizes == {"medium", "large"}
\* the user and the size the GETs ask for where every route is open
LiveIds == {"u1"}
LiveSizes == {"medium"}
\* the bodies clients post to register
RegisterBodies == {"complete", "noName", "mismatch"}

VARIABLES
    imageCache,   \* the Map: cache key -> processed image
    users,        \* PocketBase users collection: record id -> avatar file name
    uploads,      \* avatar files PocketBase has stored so far
    authStore,    \* pb.authStore: [token, model]
    req,          \* the requests in flight: position and locals of each handler run
    started,      \* requests received so far
    last,         \* the request answered last, with its response
    asked,        \* the (userId, size) pairs avatar GETs have asked for so far
    probe,        \* arguments and results of the key functions applied on their own
    images,       \* PocketBase images collection: record id -> image file name
    env           \* process.env.NODE_ENV

vars == <<imageCache, users, uploads, authStore, req, started, last, asked, probe,
          images, env>>

\* the handler runs that can be in flight together
Slots == {1, 2}

\* ------------------------------------------------------------ pure helpers
\* `${userId}-${size}`
makeKey(userId, size) == userId \o "-" \o size

\* String.prototype.startsWith
startsWith(key, prefix) ==
    /\ Len(prefix) <= Len(key)
    /\ SubSeq(key, 1, Len(prefix)) = prefix

\* the selection predicate of clearCacheByPrefix
belongsTo(key, resourceId) == startsWith(key, resourceId)

\* Map.prototype.has
cacheHas(cache, key) == key \in DOMAIN cache

\* Map.prototype.delete
cacheDelete(cache, key) == [k \in DOMAIN cache \ {key} |-> cache[k]]

\* a set that stores nothing
cacheSet_noStore(cache, key, value) == cache

\* a set that starts a new map with the one entry
cacheSet_singleEntry(cache, key, value) == [k \in {key} |-> value]

\* Map.prototype.set
cacheSet(cache, key, value) ==
    [k \in DOMAIN cache \cup {key} |-> IF k = key THEN value ELSE cache[k]]

\* an invalidation that stops at the first key it deletes
clearCacheByPrefix_firstMatch(cache, prefix) ==
    LET matching == {c \in DOMAIN cache : belongsTo(c, prefix)}
    IN  IF matching = {} THEN cache
        ELSE cacheDelete(cache, CHOOSE c \in matching : TRUE)

\* an invalidation that deletes the one key equal to the prefix
clearCacheByPrefix_exactKey(cache, prefix) == cacheDelete(cache, prefix)

\* every key that starts with the prefix is deleted
clearCacheByPrefix(cache, prefix) ==
    [k \in {c \in DOMAIN cache : ~belongsTo(c, prefix)} |-> cache[k]]

\* null and undefined: the falsy values of the sizes lookup
null == 0

\* sizes[size]: null for 'original', undefined for a name that is no key
sizes(size) ==
    CASE size = "small" -> 100
      [] size = "medium" -> 300
      [] size = "large" -> 600
      [] size = "original" -> null
      [] OTHER -> null

\* sizes[size] || sizes.medium
targetSize(size) == IF sizes(size) # null THEN sizes(size) ELSE sizes("medium")

\* the bytes PocketBase serves for a stored file
original(id, file) == [id |-> id, file |-> file, resized |-> null, fit |-> "stored"]

\* sharp(buf).resize(t, t, {fit, withoutEnlargement}).webp({quality: 80}).toBuffer()
transform(buf, t, fit) == [buf EXCEPT !.resized = t, !.fit = fit]

NoBody == [id |-> "", file |-> "", resized |-> null, fit |-> ""]

\* the values the admin field of a user record takes: the booleans, the
\* strings 'true' and 'false', and undefined for a record without the field
JsTrue == "true"
JsFalse == "false"
StrTrue == "'true'"
StrFalse == "'false'"
Undefined == "undefined"
AdminValues == {JsTrue, JsFalse, StrTrue, StrFalse, Undefined}

\* ToBoolean: false and undefined are falsy, a non-empty string is truthy
truthy(v) == v \notin {JsFalse, Undefined}

\* pb.authStore.model after save(token, null)
NoModel == [id |-> "", admin |-> Undefined]

\* `avatar-${userId}-${Date.now()}.webp`: a new name for every stored file
fileName(n) == "f" \o ToString(n)

\* `image-${Date.now()}.webp`: a new name for every stored image file
imageName(n) == "g" \o ToString(n)

\* the record authRefresh answers for a token
tokenModel(token) ==
    CASE token = "tok-u1" -> [id |-> "u1", admin |-> JsFalse]
      [] token = AdminToken -> [id |-> "u12", admin |-> JsTrue]
      [] token = "tok-u3" -> [id |-> "u3", admin |-> StrTrue]
      [] token = "tok-u4" -> [id |-> "u4", admin |-> StrFalse]
      [] token = "tok-u5" -> [id |-> "u5", admin |-> Undefined]
      [] OTHER -> NoModel

Idle ==
    [kind |-> "idle", id |-> "", size |-> "", token |-> "",
     pc |-> "idle", user |-> NoModel, avatar |-> "", buf |-> NoBody,
     download |-> "false", file |-> "none", removed |-> {}, stale |-> {}]

\* no Content-Length / Content-Disposition header, no details in the body
NoHeaders ==
    [length |-> null, disposition |-> "", details |-> FALSE]

\* what a response adds to its request: why it failed, the keys its run took
\* out of the cache, whether its set replaced an entry, and whether it put
\* other bytes in its place
NoNotes ==
    [cause |-> "", removed |-> {}, again |-> FALSE, changed |-> FALSE,
     download |-> "false"]

NoResponse ==
    [kind |-> "none", id |-> "", size |-> "", status |-> 0, xcache |-> "", body |-> NoBody,
     headers |-> NoHeaders, notes |-> NoNotes]

\* res.status(s).json(...) / res.send(body) of request r
response(r, s, x, b) ==
    [kind |-> r.kind, id |-> r.id, size |-> r.size, status |-> s, xcache |-> x, body |-> b,
     headers |-> NoHeaders,
     notes |-> [NoNotes EXCEPT !.download = r.download, !.removed = r.removed]]

NoProbe ==
    [r1 |-> "", v1 |-> "", r2 |-> "", v2 |-> "", applied |-> FALSE,
     key1 |-> "", key2 |-> "", belongs |-> FALSE]

\* details: process.env.NODE_ENV === 'development' ? error.message : undefined
devDetails == env = "development"

\* a request takes the lowest free slot
mayStart(i) ==
    /\ started < MaxReq
    /\ req[i].kind = "idle"
    /\ \A j \in Slots : j < i => req[j].kind # "idle"

\* ------------------------------------------------------------------- Init
Init ==
    /\ imageCache = << >>
    /\ users = [u \in RecordIds |-> fileName(0)]
    /\ uploads = 0
    /\ authStore = [token |-> "", model |-> NoModel]
    /\ req = [i \in Slots |-> Idle]
    /\ started = 0
    /\ last = NoResponse
    /\ asked = {}
    /\ probe = NoProbe
    /\ images = [m \in ImageIds |-> imageName(0)]
    /\ env = "production"

\* the handler run of slot i ends with a response
Respond(i, s, x, b) ==
    /\ req' = [req EXCEPT ![i] = Idle]
    /\ last' = response(req[i], s, x, b)

\* the handler run of slot i ends with a 200 after it took keys out of the cache
RespondRemoved(i, keys) ==
    /\ req' = [req EXCEPT ![i] = Idle]
    /\ last' = [response(req[i], 200, "", NoBody) EXCEPT !.notes.removed = keys]

\* the handler run of slot i ends in a catch (or in the default error handler
\* of Express) that answers s, with or without the error's message
Caught(i, s, withDetails) ==
    /\ req' = [req EXCEPT ![i] = Idle]
    /\ last' = [response(req[i], s, "", NoBody) EXCEPT !.headers.details = withDetails]

\* the handler run of slot i suspends at its next await
Await(i, r) ==
    /\ req' = [req EXCEPT ![i] = r]
    /\ UNCHANGED last

\* ------------------------------------------------- responses of the GETs
\* Buffer.length of an image: the stored file is larger than any resized one
byteLength(buf) == IF buf.resized = null THEN 1000 ELSE buf.resized

\* the catch of the GET handlers: error.status === 404 is answered 404, every
\* other throw 500 with the gated details
GetCatch(i, errorStatus, cause) ==
    /\ req' = [req EXCEPT ![i] = Idle]
    /\ last' = IF errorStatus = 404
               THEN [response(req[i], 404, "", NoBody) EXCEPT !.notes.cause = cause]
               ELSE [response(req[i], 500, "", NoBody) EXCEPT
                        !.notes.cause = cause, !.headers.details = devDetails]

\* return res.status(404).json(...) of a record without a file
GetNoFile(i) ==
    /\ req' = [req EXCEPT ![i] = Idle]
    /\ last' = [response(req[i], 404, "", NoBody) EXCEPT !.notes.cause = "NoOriginal"]

\* the HIT branch: res.set({..., 'X-Cache': 'HIT'}); res.send(cached)
SendHit(r, cached) ==
    [response(r, 200, "HIT", cached) EXCEPT !.headers.length = byteLength(cached)]

\* a MISS that sets Content-Length from the fetched buffer
SendMiss_fetchedLength(i, cacheKey, processedImage, disposition) ==
    /\ imageCache' = cacheSet(imageCache, cacheKey, processedImage)
    /\ req' = [req EXCEPT ![i] = Idle]
    /\ last' = [response(req[i], 200, "MISS", processedImage) EXCEPT
                  !.headers.length = byteLength(req[i].buf),
                  !.headers.disposition = disposition,
                  !.notes.again = cacheHas(imageCache, cacheKey),
                  !.notes.changed = (cacheHas(imageCache, cacheKey)
                                       /\ imageCache[cacheKey] # processedImage)]

\* imageCache.set(cacheKey, processedImage); res.set(headers); res.send(processedImage)
SendMiss(i, cacheKey, processedImage, disposition) ==
    /\ imageCache' = cacheSet(imageCache, cacheKey, processedImage)
    /\ req' = [req EXCEPT ![i] = Idle]
    /\ last' = [response(req[i], 200, "MISS", processedImage) EXCEPT
                  !.headers.length = byteLength(processedImage),
                  !.headers.disposition = disposition,
                  !.notes.again = cacheHas(imageCache, cacheKey),
                  !.notes.changed = (cacheHas(imageCache, cacheKey)
                                       /\ imageCache[cacheKey] # processedImage)]

\* --------------------------------------- GET /api/users/:userId/avatar
\* the files the record of userId has held and holds no more: every name an
\* update has stored so far but the one the record carries now
oldFiles(userId) ==
    {fileName(n) : n \in 0..uploads} \ (IF userId \in DOMAIN users THEN {users[userId]} ELSE {})

\* a HIT that takes the entry out of the cache once it is read
GetAvatarArrives_hitEvicts(i, ids, sizesAsked, downloads) ==
    /\ mayStart(i)
    /\ started' = started + 1
    /\ \E userId \in ids, size \in sizesAsked, download \in downloads :
         LET cacheKey == makeKey(userId, size)
             r == [Idle EXCEPT !.kind = "getAvatar", !.id = userId, !.size = size,
                               !.download = download, !.stale = oldFiles(userId)]
         IN  /\ asked' = asked \cup {<<userId, size>>}
             /\ IF cacheHas(imageCache, cacheKey)
                THEN /\ req' = req
                     /\ last' = SendHit(r, imageCache[cacheKey])
                     /\ imageCache' = cacheDelete(imageCache, cacheKey)
                ELSE /\ Await(i, [r EXCEPT !.pc = "getOne"])
                     /\ UNCHANGED imageCache
    /\ UNCHANGED <<users, uploads, authStore, probe, images, env>>

\* the request arrives: cache lookup, then HIT or the getOne call
GetAvatarArrives(i, ids, sizesAsked, downloads) ==
    /\ mayStart(i)
    /\ started' = started + 1
    /\ \E userId \in ids, size \in sizesAsked, download \in downloads :
         LET cacheKey == makeKey(userId, size)
             r == [Idle EXCEPT !.kind = "getAvatar", !.id = userId, !.size = size,
                               !.download = download, !.stale = oldFiles(userId)]
         IN  /\ asked' = asked \cup {<<userId, size>>}
             /\ IF cacheHas(imageCache, cacheKey)
                THEN /\ req' = req
                     /\ last' = SendHit(r, imageCache[cacheKey])
                ELSE Await(i, [r EXCEPT !.pc = "getOne"])
    /\ UNCHANGED <<imageCache, users, uploads, authStore, probe, images, env>>

\* the clients of the avatar routes ask for the users PocketBase holds
GetAvatarStart(i) == GetAvatarArrives(i, UrlIds, SizesAsked, {"false"})

\* a lookup that goes on to fetch without looking at user.avatar
getOneReturns_noAvatarCheck(i, pbUp) ==
    LET r == req[i]
    IN  IF ~pbUp THEN GetCatch(i, 0, "Upstream")
        ELSE IF r.id \notin DOMAIN users THEN GetCatch(i, 404, "NoRecord")
        ELSE Await(i, [r EXCEPT !.pc = "fetch", !.avatar = users[r.id]])

\* a catch that answers 404 for whatever getOne throws
getOneReturns_allNotFound(i, pbUp) ==
    LET r == req[i]
    IN  IF ~pbUp THEN GetCatch(i, 404, "Upstream")
        ELSE IF r.id \notin DOMAIN users THEN GetCatch(i, 404, "NoRecord")
        ELSE IF users[r.id] = "" THEN GetNoFile(i)
        ELSE Await(i, [r EXCEPT !.pc = "fetch", !.avatar = users[r.id]])

\* pb.collection('users').getOne returns the record (pbUp), throws a 404
\* ClientResponseError for an id it does not hold, or throws without a status
\* a lookup that answers the record as it was first stored
getOneReturns_firstFile(i, pbUp) ==
    LET r == req[i]
    IN  IF ~pbUp THEN GetCatch(i, 0, "Upstream")
        ELSE IF r.id \notin DOMAIN users THEN GetCatch(i, 404, "NoRecord")
        ELSE IF users[r.id] = "" THEN GetNoFile(i)
        ELSE Await(i, [r EXCEPT !.pc = "fetch", !.avatar = fileName(0)])

getOneReturns(i, pbUp) ==
    LET r == req[i]
    IN  IF ~pbUp THEN GetCatch(i, 0, "Upstream")
        ELSE IF r.id \notin DOMAIN users THEN GetCatch(i, 404, "NoRecord")
        ELSE IF users[r.id] = "" THEN GetNoFile(i)
        ELSE Await(i, [r EXCEPT !.pc = "fetch", !.avatar = users[r.id]])

GetAvatarGetOne(i) ==
    /\ req[i].kind = "getAvatar" /\ req[i].pc = "getOne"
    /\ \E pbUp \in BOOLEAN : getOneReturns(i, pbUp)
    /\ UNCHANGED <<imageCache, users, uploads, authStore, started, asked, probe, images, env>>

\* headers['Content-Disposition'] when download === 'true'
avatarDisposition(r) ==
    IF r.download = "true" THEN "attachment; filename=\"avatar-" \o r.id \o ".webp\"" ELSE ""

\* fetch(imageUrl) and response.arrayBuffer() return, or fetch fails or is not ok
GetAvatarFetch(i) ==
    /\ req[i].kind = "getAvatar" /\ req[i].pc = "fetch"
    /\ \E ok \in BOOLEAN :
         LET r == req[i]
             buf == original(r.id, r.avatar)
         IN  IF ~ok
             THEN /\ GetCatch(i, 0, "Upstream")
                  /\ UNCHANGED imageCache
             ELSE IF targetSize(r.size) # null
             THEN /\ Await(i, [r EXCEPT !.pc = "sharp", !.buf = buf])
                  /\ UNCHANGED imageCache
             ELSE SendMiss(i, makeKey(r.id, r.size), buf, avatarDisposition(r))
    /\ UNCHANGED <<users, uploads, authStore, started, asked, probe, images, env>>

\* a transform step that caches the fetched bytes when sharp throws
GetAvatarSharp_storesOnFailure(i) ==
    /\ req[i].kind = "getAvatar" /\ req[i].pc = "sharp"
    /\ \E ok \in BOOLEAN :
         LET r == req[i]
             processedImage == transform(r.buf, targetSize(r.size), "cover")
         IN  IF ~ok
             THEN /\ imageCache' = cacheSet(imageCache, makeKey(r.id, r.size), r.buf)
                  /\ GetCatch(i, 0, "Transform")
             ELSE SendMiss(i, makeKey(r.id, r.size), processedImage, avatarDisposition(r))
    /\ UNCHANGED <<users, uploads, authStore, started, asked, probe, images, env>>

\* a transform step that stores the processed image and sends the fetched one
GetAvatarSharp_sendsFetched(i) ==
    /\ req[i].kind = "getAvatar" /\ req[i].pc = "sharp"
    /\ \E ok \in BOOLEAN :
         LET r == req[i]
             processedImage == transform(r.buf, targetSize(r.size), "cover")
         IN  IF ~ok
             THEN /\ GetCatch(i, 0, "Transform")
                  /\ UNCHANGED imageCache
             ELSE /\ imageCache' = cacheSet(imageCache, makeKey(r.id, r.size), processedImage)
                  /\ req' = [req EXCEPT ![i] = Idle]
                  /\ last' = [response(r, 200, "MISS", r.buf) EXCEPT
                                !.headers.length = byteLength(r.buf),
                                !.headers.disposition = avatarDisposition(r),
                                !.notes.again = cacheHas(imageCache, makeKey(r.id, r.size))]
    /\ UNCHANGED <<users, uploads, authStore, started, asked, probe, images, env>>

\* sharp(...).toBuffer() returns or throws; on success set, then send
\* a store step that transforms the file the record names by now
GetAvatarSharp_readsAgain(i) ==
    /\ req[i].kind = "getAvatar" /\ req[i].pc = "sharp"
    /\ \E ok \in BOOLEAN :
         LET r == req[i]
             processedImage == transform(original(r.id, users[r.id]), targetSize(r.size), "cover")
         IN  IF ~ok
             THEN /\ GetCatch(i, 0, "Transform")
                  /\ UNCHANGED imageCache
             ELSE SendMiss(i, makeKey(r.id, r.size), processedImage, avatarDisposition(r))
    /\ UNCHANGED <<users, uploads, authStore, started, asked, probe, images, env>>

\* a store step that keeps the entry another run has stored and sends that
GetAvatarSharp_keepsFirst(i) ==
    /\ req[i].kind = "getAvatar" /\ req[i].pc = "sharp"
    /\ \E ok \in BOOLEAN :
         LET r == req[i]
             cacheKey == makeKey(r.id, r.size)
             processedImage == IF cacheHas(imageCache, cacheKey) THEN imageCache[cacheKey]
                               ELSE transform(r.buf, targetSize(r.size), "cover")
         IN  IF ~ok
             THEN /\ GetCatch(i, 0, "Transform")
                  /\ UNCHANGED imageCache
             ELSE SendMiss(i, cacheKey, processedImage, avatarDisposition(r))
    /\ UNCHANGED <<users, uploads, authStore, started, asked, probe, images, env>>

GetAvatarSharp(i) ==
    /\ req[i].kind = "getAvatar" /\ req[i].pc = "sharp"
    /\ \E ok \in BOOLEAN :
         LET r == req[i]
             processedImage == transform(r.buf, targetSize(r.size), "cover")
         IN  IF ~ok
             THEN /\ GetCatch(i, 0, "Transform")
                  /\ UNCHANGED imageCache
             ELSE SendMiss(i, makeKey(r.id, r.size), processedImage, avatarDisposition(r))
    /\ UNCHANGED <<users, uploads, authStore, started, asked, probe, images, env>>

\* ------------------------------------------------------ authenticateToken
\* up to the await of authRefresh: 401 without a token, else authStore.save
authenticateToken(i, r) ==
    IF r.token = ""
    THEN /\ req' = req
         /\ last' = response(r, 401, "", NoBody)
         /\ UNCHANGED authStore
    ELSE /\ Await(i, [r EXCEPT !.pc = "authRefresh"])
         /\ authStore' = [token |-> r.token, model |-> NoModel]

\* a catch that logs the error and sends nothing
authRefreshThrows_noAnswer(i) ==
    /\ Await(i, [req[i] EXCEPT !.pc = "caught"])
    /\ UNCHANGED authStore

\* authRefresh threw: the catch answers 401
authRefreshThrows(i) ==
    /\ Respond(i, 401, "", NoBody)
    /\ UNCHANGED authStore

\* authRefresh answered: the SDK saves token and record, req.user is the model
authRefreshSaves(r) ==
    authStore' = [token |-> r.token, model |-> tokenModel(r.token)]

\* --------------------------------------- POST /api/users/:userId/avatar
PostAvatarStart(i) ==
    /\ mayStart(i)
    /\ started' = started + 1
    /\ \E userId \in UrlIds, token \in Tokens :
         authenticateToken(i, [Idle EXCEPT !.kind = "postAvatar", !.id = userId,
                                           !.token = token])
    /\ UNCHANGED <<imageCache, users, uploads, asked, probe, images, env>>

\* authRefresh returns or throws; next() starts multer
PostAvatarAuth(i) ==
    /\ req[i].kind = "postAvatar" /\ req[i].pc = "authRefresh"
    /\ \E valid \in BOOLEAN :
         LET r == req[i]
         IN  IF ~valid
             THEN authRefreshThrows(i)
             ELSE /\ authRefreshSaves(r)
                  /\ Await(i, [r EXCEPT !.pc = "multer", !.user = tokenModel(r.token)])
    /\ UNCHANGED <<imageCache, users, uploads, started, asked, probe, images, env>>

\* upload.single('avatar') is through the body: a file the filter refuses goes
\* to the default error handler of Express, which answers 500 and shows the
\* stack unless NODE_ENV is production; else the handler runs up to sharp
PostAvatarMulter(i) ==
    /\ req[i].kind = "postAvatar" /\ req[i].pc = "multer"
    /\ \E file \in Files :
         LET r == req[i]
         IN  IF file = "text" THEN Caught(i, 500, env # "production")
             ELSE IF r.user.id # r.id /\ ~truthy(r.user.admin)
                  THEN Respond(i, 403, "", NoBody)
             ELSE IF file = "none" THEN Respond(i, 400, "", NoBody)
             ELSE Await(i, [r EXCEPT !.pc = "sharp"])
    /\ UNCHANGED <<imageCache, users, uploads, authStore, started, asked, probe, images, env>>

\* sharp(req.file.buffer)...toBuffer() returns or throws; then the update call
PostAvatarSharp(i) ==
    /\ req[i].kind = "postAvatar" /\ req[i].pc = "sharp"
    /\ \E ok \in BOOLEAN :
         IF ~ok THEN Caught(i, 500, devDetails)
         ELSE Await(i, [req[i] EXCEPT !.pc = "update"])
    /\ UNCHANGED <<imageCache, users, uploads, authStore, started, asked, probe, images, env>>

\* PocketBase runs users.update(userId, formData): it stores the file or fails
PostAvatarUpdate(i) ==
    /\ req[i].kind = "postAvatar" /\ req[i].pc = "update"
    /\ \E ok \in BOOLEAN :
         LET r == req[i]
         IN  IF ~ok \/ r.id \notin DOMAIN users
             THEN /\ Caught(i, 500, devDetails)
                  /\ UNCHANGED <<users, uploads>>
             ELSE /\ users' = [users EXCEPT ![r.id] = fileName(uploads + 1)]
                  /\ uploads' = uploads + 1
                  /\ Await(i, [r EXCEPT !.pc = "updated"])
    /\ UNCHANGED <<imageCache, authStore, started, asked, probe, images, env>>

\* an upload that rewrites the cached variants of its user in place
PostAvatarDone_refreshes(i) ==
    /\ req[i].kind = "postAvatar" /\ req[i].pc = "updated"
    /\ imageCache' = [k \in DOMAIN imageCache |->
                        IF belongsTo(k, req[i].id)
                        THEN [imageCache[k] EXCEPT !.file = users[req[i].id]]
                        ELSE imageCache[k]]
    /\ RespondRemoved(i, {})
    /\ UNCHANGED <<users, uploads, authStore, started, asked, probe, images, env>>

\* the update call returns: imageCache.delete(userId), then res.json
PostAvatarDone(i) ==
    /\ req[i].kind = "postAvatar" /\ req[i].pc = "updated"
    /\ imageCache' = cacheDelete(imageCache, req[i].id)
    /\ RespondRemoved(i, DOMAIN imageCache \ DOMAIN imageCache')
    /\ UNCHANGED <<users, uploads, authStore, started, asked, probe, images, env>>

\* ------------------------------------- DELETE /api/users/:userId/avatar
DeleteAvatarArrives(i, tokens) ==
    /\ mayStart(i)
    /\ started' = started + 1
    /\ \E userId \in UrlIds, token \in tokens :
         authenticateToken(i, [Idle EXCEPT !.kind = "deleteAvatar", !.id = userId,
                                           !.token = token])
    /\ UNCHANGED <<imageCache, users, uploads, asked, probe, images, env>>

DeleteAvatarStart(i) == DeleteAvatarArrives(i, Tokens)

\* authRefresh returns or throws; the handler runs up to the update call
DeleteAvatarAuth(i) ==
    /\ req[i].kind = "deleteAvatar" /\ req[i].pc = "authRefresh"
    /\ \E valid \in BOOLEAN :
         LET r == req[i]
             user == tokenModel(r.token)
         IN  IF ~valid
             THEN authRefreshThrows(i)
             ELSE /\ authRefreshSaves(r)
                  /\ IF user.id # r.id /\ ~truthy(user.admin)
                     THEN Respond(i, 403, "", NoBody)
                     ELSE Await(i, [r EXCEPT !.pc = "update", !.user = user])
    /\ UNCHANGED <<imageCache, users, uploads, started, asked, probe, images, env>>

\* PocketBase runs users.update(userId, {avatar: null}): it clears the file or fails
DeleteAvatarUpdate(i) ==
    /\ req[i].kind = "deleteAvatar" /\ req[i].pc = "update"
    /\ \E ok \in BOOLEAN :
         LET r == req[i]
         IN  IF ~ok \/ r.id \notin DOMAIN users
             THEN /\ Caught(i, 500, FALSE)
                  /\ UNCHANGED users
             ELSE /\ users' = [users EXCEPT ![r.id] = ""]
                  /\ Await(i, [r EXCEPT !.pc = "updated"])
    /\ UNCHANGED <<imageCache, uploads, authStore, started, asked, probe, images, env>>

\* the update call returns: clearCacheByPrefix(userId), then res.json
DeleteAvatarDone(i) ==
    /\ req[i].kind = "deleteAvatar" /\ req[i].pc = "updated"
    /\ imageCache' = clearCacheByPrefix(imageCache, req[i].id)
    /\ RespondRemoved(i, DOMAIN imageCache \ DOMAIN imageCache')
    /\ UNCHANGED <<users, uploads, authStore, started, asked, probe, images, env>>

\* ------------------------------------------------------------------- Next
Next ==
    \E i \in Slots :
        \/ GetAvatarStart(i)
        \/ GetAvatarGetOne(i)
        \/ GetAvatarFetch(i)
        \/ GetAvatarSharp(i)
        \/ PostAvatarStart(i)
        \/ PostAvatarAuth(i)
        \/ PostAvatarMulter(i)
        \/ PostAvatarSharp(i)
        \/ PostAvatarUpdate(i)
        \/ PostAvatarDone(i)
        \/ DeleteAvatarStart(i)
        \/ DeleteAvatarAuth(i)
        \/ DeleteAvatarUpdate(i)
        \/ DeleteAvatarDone(i)

Spec == Init /\ [][Next]_vars

\* ------------------------------ GET /api/admin/images/:imageId/file
\* `image-${imageId}-${size}`
makeImageKey(imageId, size) == "image-" \o imageId \o "-" \o size

\* the request arrives: cache lookup, then HIT or the getOne call
GetImageArrives(i, sizesAsked) ==
    /\ mayStart(i)
    /\ started' = started + 1
    /\ \E imageId \in ImageIds, size \in sizesAsked :
         LET cacheKey == makeImageKey(imageId, size)
             r == [Idle EXCEPT !.kind = "getImageFile", !.id = imageId, !.size = size]
         IN  IF cacheHas(imageCache, cacheKey)
             THEN /\ req' = req
                  /\ last' = SendHit(r, imageCache[cacheKey])
             ELSE Await(i, [r EXCEPT !.pc = "getOne"])
    /\ UNCHANGED <<imageCache, users, uploads, authStore, asked, probe, images, env>>

GetImageStart(i) == GetImageArrives(i, PublicSizes)

\* pb.collection('images').getOne returns the record, or throws
GetImageGetOne(i) ==
    /\ req[i].kind = "getImageFile" /\ req[i].pc = "getOne"
    /\ \E pbUp \in BOOLEAN :
         LET r == req[i]
         IN  IF ~pbUp THEN GetCatch(i, 0, "Upstream")
             ELSE IF r.id \notin DOMAIN images THEN GetCatch(i, 404, "NoRecord")
             ELSE IF images[r.id] = "" THEN GetNoFile(i)
             ELSE Await(i, [r EXCEPT !.pc = "fetch", !.avatar = images[r.id]])
    /\ UNCHANGED <<imageCache, users, uploads, authStore, started, asked, probe, images, env>>

\* fetch(imageUrl) and response.arrayBuffer() return, or fetch fails or is not ok
GetImageFetch(i) ==
    /\ req[i].kind = "getImageFile" /\ req[i].pc = "fetch"
    /\ \E ok \in BOOLEAN :
         LET r == req[i]
             buf == original(r.id, r.avatar)
         IN  IF ~ok
             THEN /\ GetCatch(i, 0, "Upstream")
                  /\ UNCHANGED imageCache
             ELSE IF targetSize(r.size) # null
             THEN /\ Await(i, [r EXCEPT !.pc = "sharp", !.buf = buf])
                  /\ UNCHANGED imageCache
             ELSE SendMiss(i, makeImageKey(r.id, r.size), buf, "")
    /\ UNCHANGED <<users, uploads, authStore, started, asked, probe, images, env>>

\* sharp(...).toBuffer() returns or throws; on success set, then send
GetImageSharp(i) ==
    /\ req[i].kind = "getImageFile" /\ req[i].pc = "sharp"
    /\ \E ok \in BOOLEAN :
         LET r == req[i]
             processedImage == transform(r.buf, targetSize(r.size), "inside")
         IN  IF ~ok
             THEN /\ GetCatch(i, 0, "Transform")
                  /\ UNCHANGED imageCache
             ELSE SendMiss(i, makeImageKey(r.id, r.size), processedImage, "")
    /\ UNCHANGED <<users, uploads, authStore, started, asked, probe, images, env>>

\* ----------------------------------------------------------- GET /health
HealthStart(i) ==
    /\ mayStart(i)
    /\ started' = started + 1
    /\ Await(i, [Idle EXCEPT !.kind = "health", !.pc = "check"])
    /\ UNCHANGED <<imageCache, users, uploads, authStore, asked, probe, images, env>>

\* pb.health.check() returns or throws: the 503 carries error.message
HealthCheck(i) ==
    /\ req[i].kind = "health" /\ req[i].pc = "check"
    /\ \E ok \in BOOLEAN :
         IF ok THEN Respond(i, 200, "", NoBody) ELSE Caught(i, 503, TRUE)
    /\ UNCHANGED <<imageCache, users, uploads, authStore, started, asked, probe, images, env>>

\* ------------------------------------------------ POST /api/auth/register
\* the request arrives: 400 for a missing field or passwords that differ,
\* else the create call
RegisterStart(i) ==
    /\ mayStart(i)
    /\ started' = started + 1
    /\ \E body \in RegisterBodies :
         LET r == [Idle EXCEPT !.kind = "register", !.id = NewUserId]
         IN  IF body # "complete"
             THEN /\ req' = req
                  /\ last' = response(r, 400, "", NoBody)
             ELSE Await(i, [r EXCEPT !.pc = "create"])
    /\ UNCHANGED <<imageCache, users, uploads, authStore, asked, probe, images, env>>

\* pb.collection('users').create stores the record, or throws (PocketBase is
\* down, or the email is taken): the 400 carries error.data || error.message
RegisterCreate(i) ==
    /\ req[i].kind = "register" /\ req[i].pc = "create"
    /\ \E ok \in BOOLEAN :
         IF ok /\ req[i].id \notin DOMAIN users
         THEN /\ users' = [u \in DOMAIN users \cup {req[i].id} |->
                              IF u = req[i].id THEN "" ELSE users[u]]
              /\ Respond(i, 201, "", NoBody)
         ELSE /\ Caught(i, 400, TRUE)
              /\ UNCHANGED users
    /\ UNCHANGED <<imageCache, uploads, authStore, started, asked, probe, images, env>>

\* --------------------------------- the routes without authenticateToken
\* their clients send no Authorization header, and ask for any avatar
GetAvatarStartAny(i) == GetAvatarArrives(i, PublicIds, PublicSizes, Downloads)

InitPublic ==
    /\ imageCache = << >>
    /\ users = [u \in RecordIds |-> fileName(0)]
    /\ uploads = 0
    /\ authStore = [token |-> "", model |-> NoModel]
    /\ req = [i \in Slots |-> Idle]
    /\ started = 0
    /\ last = NoResponse
    /\ asked = {}
    /\ probe = NoProbe
    /\ images = [m \in ImageIds |-> imageName(0)]
    /\ env \in NodeEnvs

NextPublic ==
    \E i \in Slots :
        \/ GetAvatarStartAny(i)
        \/ GetAvatarGetOne(i)
        \/ GetAvatarFetch(i)
        \/ GetAvatarSharp(i)
        \/ GetImageStart(i)
        \/ GetImageGetOne(i)
        \/ GetImageFetch(i)
        \/ GetImageSharp(i)
        \/ HealthStart(i)
        \/ HealthCheck(i)
        \/ RegisterStart(i)
        \/ RegisterCreate(i)

SpecPublic == InitPublic /\ [][NextPublic]_vars

\* ------------------------------------------------------------ requireAdmin
\* req.user && (req.user.admin === true || req.user.admin === 'true')
isAdmin(user) == user # NoModel /\ (user.admin = JsTrue \/ user.admin = StrTrue)

\* `image-${imageId}`
imagePrefix(imageId) == "image-" \o imageId

\* -------------------------------------- PUT /api/admin/images/:imageId
PutImageStart(i) ==
    /\ mayStart(i)
    /\ started' = started + 1
    /\ \E imageId \in ImageIds, token \in Tokens :
         authenticateToken(i, [Idle EXCEPT !.kind = "putImage", !.id = imageId,
                                           !.token = token])
    /\ UNCHANGED <<imageCache, users, uploads, asked, probe, images, env>>

\* authRefresh returns or throws; requireAdmin; next() starts multer
PutImageAuth(i) ==
    /\ req[i].kind = "putImage" /\ req[i].pc = "authRefresh"
    /\ \E valid \in BOOLEAN :
         LET r == req[i]
             user == tokenModel(r.token)
         IN  IF ~valid
             THEN authRefreshThrows(i)
             ELSE /\ authRefreshSaves(r)
                  /\ IF ~isAdmin(user)
                     THEN Respond(i, 403, "", NoBody)
                     ELSE Await(i, [r EXCEPT !.pc = "multer", !.user = user])
    /\ UNCHANGED <<imageCache, users, uploads, started, asked, probe, images, env>>

\* upload.single('image') is through the body (a file the filter refuses goes
\* to the default error handler); the handler runs up to the getOne call
PutImageMulter(i) ==
    /\ req[i].kind = "putImage" /\ req[i].pc = "multer"
    /\ \E file \in Files :
         IF file = "text" THEN Caught(i, 500, env # "production")
         ELSE Await(i, [req[i] EXCEPT !.pc = "getOne", !.file = file])
    /\ UNCHANGED <<imageCache, users, uploads, authStore, started, asked, probe, images, env>>

\* the catch of the image update and delete handlers
ImageCatch(i, errorStatus, withDetails) ==
    IF errorStatus = 404 THEN Respond(i, 404, "", NoBody)
    ELSE Caught(i, 500, withDetails)

\* getOne returns or throws; with a file the handler runs up to sharp, without
\* one up to the update call
PutImageGetOne(i) ==
    /\ req[i].kind = "putImage" /\ req[i].pc = "getOne"
    /\ \E pbUp \in BOOLEAN :
         LET r == req[i]
         IN  IF ~pbUp THEN ImageCatch(i, 0, devDetails)
             ELSE IF r.id \notin DOMAIN images THEN ImageCatch(i, 404, devDetails)
             ELSE IF r.file = "image" THEN Await(i, [r EXCEPT !.pc = "sharp"])
             ELSE Await(i, [r EXCEPT !.pc = "update"])
    /\ UNCHANGED <<imageCache, users, uploads, authStore, started, asked, probe, images, env>>

\* sharp(req.file.buffer)...toBuffer() returns or throws; on return the file is
\* appended, clearCacheByPrefix(`image-${imageId}`) runs, then the update call
PutImageSharp(i) ==
    /\ req[i].kind = "putImage" /\ req[i].pc = "sharp"
    /\ \E ok \in BOOLEAN :
         IF ~ok
         THEN /\ ImageCatch(i, 0, devDetails)
              /\ UNCHANGED imageCache
         ELSE /\ imageCache' = clearCacheByPrefix(imageCache, imagePrefix(req[i].id))
              /\ Await(i, [req[i] EXCEPT !.pc = "update",
                                         !.removed = DOMAIN imageCache \ DOMAIN imageCache'])
    /\ UNCHANGED <<users, uploads, authStore, started, asked, probe, images, env>>

\* PocketBase runs images.update(imageId, formData): with a file in the form it
\* stores the file under a new name; or it fails
PutImageUpdate(i) ==
    /\ req[i].kind = "putImage" /\ req[i].pc = "update"
    /\ \E ok \in BOOLEAN :
         LET r == req[i]
         IN  IF ~ok
             THEN /\ ImageCatch(i, 0, devDetails)
                  /\ UNCHANGED <<images, uploads>>
             ELSE IF r.id \notin DOMAIN images
             THEN /\ ImageCatch(i, 404, devDetails)
                  /\ UNCHANGED <<images, uploads>>
             ELSE IF r.file = "image"
             THEN /\ images' = [images EXCEPT ![r.id] = imageName(uploads + 1)]
                  /\ uploads' = uploads + 1
                  /\ Await(i, [r EXCEPT !.pc = "updated"])
             ELSE /\ Await(i, [r EXCEPT !.pc = "updated"])
                  /\ UNCHANGED <<images, uploads>>
    /\ UNCHANGED <<imageCache, users, authStore, started, asked, probe, env>>

\* the update call returns: res.json
PutImageDone(i) ==
    /\ req[i].kind = "putImage" /\ req[i].pc = "updated"
    /\ Respond(i, 200, "", NoBody)
    /\ UNCHANGED <<imageCache, users, uploads, authStore, started, asked, probe, images, env>>

\* ----------------------------------- DELETE /api/admin/images/:imageId
DeleteImageArrives(i, tokens) ==
    /\ mayStart(i)
    /\ started' = started + 1
    /\ \E imageId \in ImageIds, token \in tokens :
         authenticateToken(i, [Idle EXCEPT !.kind = "deleteImage", !.id = imageId,
                                           !.token = token])
    /\ UNCHANGED <<imageCache, users, uploads, asked, probe, images, env>>

DeleteImageStart(i) == DeleteImageArrives(i, Tokens)

\* authRefresh returns or throws; requireAdmin; the handler runs up to the
\* delete call
DeleteImageAuth(i) ==
    /\ req[i].kind = "deleteImage" /\ req[i].pc = "authRefresh"
    /\ \E valid \in BOOLEAN :
         LET r == req[i]
             user == tokenModel(r.token)
         IN  IF ~valid
             THEN authRefreshThrows(i)
             ELSE /\ authRefreshSaves(r)
                  /\ IF ~isAdmin(user)
                     THEN Respond(i, 403, "", NoBody)
                     ELSE Await(i, [r EXCEPT !.pc = "delete", !.user = user])
    /\ UNCHANGED <<imageCache, users, uploads, started, asked, probe, images, env>>

\* PocketBase runs images.delete(imageId): the record is gone; or it fails
DeleteImageDelete(i) ==
    /\ req[i].kind = "deleteImage" /\ req[i].pc = "delete"
    /\ \E ok \in BOOLEAN :
         LET r == req[i]
         IN  IF ~ok
             THEN /\ ImageCatch(i, 0, FALSE)
                  /\ UNCHANGED images
             ELSE IF r.id \notin DOMAIN images
             THEN /\ ImageCatch(i, 404, FALSE)
                  /\ UNCHANGED images
             ELSE /\ images' = [m \in DOMAIN images \ {r.id} |-> images[m]]
                  /\ Await(i, [r EXCEPT !.pc = "deleted"])
    /\ UNCHANGED <<imageCache, users, uploads, authStore, started, asked, probe, env>>

\* the delete call returns: clearCacheByPrefix(`image-${imageId}`), then res.json
DeleteImageDone(i) ==
    /\ req[i].kind = "deleteImage" /\ req[i].pc = "deleted"
    /\ imageCache' = clearCacheByPrefix(imageCache, imagePrefix(req[i].id))
    /\ RespondRemoved(i, DOMAIN imageCache \ DOMAIN imageCache')
    /\ UNCHANGED <<users, uploads, authStore, started, asked, probe, images, env>>

\* --------------------------------------------- the admin image routes
NextImages ==
    \E i \in Slots :
        \/ GetImageStart(i)
        \/ GetImageGetOne(i)
        \/ GetImageFetch(i)
        \/ GetImageSharp(i)
        \/ PutImageStart(i)
        \/ PutImageAuth(i)
        \/ PutImageMulter(i)
        \/ PutImageGetOne(i)
        \/ PutImageSharp(i)
        \/ PutImageUpdate(i)
        \/ PutImageDone(i)
        \/ DeleteImageStart(i)
        \/ DeleteImageAuth(i)
        \/ DeleteImageDelete(i)
        \/ DeleteImageDone(i)

SpecImages == Init /\ [][NextImages]_vars

\* ------------------------------------------------- POST /api/auth/logout
LogoutStart(i) ==
    /\ mayStart(i)
    /\ started' = started + 1
    /\ \E token \in AuthTokens :
         authenticateToken(i, [Idle EXCEPT !.kind = "logout", !.token = token])
    /\ UNCHANGED <<imageCache, users, uploads, asked, probe, images, env>>

\* authRefresh returns or throws; the handler answers and calls nothing else
LogoutAuth(i) ==
    /\ req[i].kind = "logout" /\ req[i].pc = "authRefresh"
    /\ \E valid \in BOOLEAN :
         IF ~valid
         THEN authRefreshThrows(i)
         ELSE /\ authRefreshSaves(req[i])
              /\ Respond(i, 200, "", NoBody)
    /\ UNCHANGED <<imageCache, users, uploads, started, asked, probe, images, env>>

\* ------------------------------------------------ GET /api/users/:userId
\* authorizeUserAccess lets the user through: its own id, or admin === true
authorizeUserAccess(user, userId) == user.id = userId \/ user.admin = JsTrue

GetUserStart(i) ==
    /\ mayStart(i)
    /\ started' = started + 1
    /\ \E userId \in UrlIds, token \in AuthTokens :
         authenticateToken(i, [Idle EXCEPT !.kind = "getUser", !.id = userId,
                                           !.token = token])
    /\ UNCHANGED <<imageCache, users, uploads, asked, probe, images, env>>

\* authRefresh returns or throws; authorizeUserAccess; the handler runs up to
\* the getOne call
GetUserAuth(i) ==
    /\ req[i].kind = "getUser" /\ req[i].pc = "authRefresh"
    /\ \E valid \in BOOLEAN :
         LET r == req[i]
             user == tokenModel(r.token)
         IN  IF ~valid
             THEN authRefreshThrows(i)
             ELSE /\ authRefreshSaves(r)
                  /\ IF ~authorizeUserAccess(user, r.id)
                     THEN Respond(i, 403, "", NoBody)
                     ELSE Await(i, [r EXCEPT !.pc = "getOne", !.user = user])
    /\ UNCHANGED <<imageCache, users, uploads, started, asked, probe, images, env>>

\* users.getOne returns the record, or throws: the catch answers 404
GetUserGetOne(i) ==
    /\ req[i].kind = "getUser" /\ req[i].pc = "getOne"
    /\ \E ok \in BOOLEAN :
         IF ok /\ req[i].id \in DOMAIN users
         THEN Respond(i, 200, "", NoBody)
         ELSE Respond(i, 404, "", NoBody)
    /\ UNCHANGED <<imageCache, users, uploads, authStore, started, asked, probe, images, env>>

\* the avatar delete and the image delete, sent by the clients of the account
\* routes
DeleteAvatarStartAnyone(i) == DeleteAvatarArrives(i, AuthTokens)

DeleteImageStartAnyone(i) == DeleteImageArrives(i, AuthTokens)

NextAuth ==
    \E i \in Slots :
        \/ LogoutStart(i)
        \/ LogoutAuth(i)
        \/ GetUserStart(i)
        \/ GetUserAuth(i)
        \/ GetUserGetOne(i)
        \/ DeleteAvatarStartAnyone(i)
        \/ DeleteAvatarAuth(i)
        \/ DeleteAvatarUpdate(i)
        \/ DeleteAvatarDone(i)
        \/ DeleteImageStartAnyone(i)
        \/ DeleteImageAuth(i)
        \/ DeleteImageDelete(i)
        \/ DeleteImageDone(i)

SpecAuth == Init /\ [][NextAuth]_vars

\* ------------------------------- the get, upload, update and delete routes
\* the call the handler run of slot i waits for returns or throws
Continues(i) ==
    \/ GetAvatarGetOne(i)
    \/ GetAvatarFetch(i)
    \/ GetAvatarSharp(i)
    \/ PostAvatarAuth(i)
    \/ PostAvatarMulter(i)
    \/ PostAvatarSharp(i)
    \/ PostAvatarUpdate(i)
    \/ PostAvatarDone(i)
    \/ DeleteAvatarAuth(i)
    \/ DeleteAvatarUpdate(i)
    \/ DeleteAvatarDone(i)
    \/ GetImageGetOne(i)
    \/ GetImageFetch(i)
    \/ GetImageSharp(i)
    \/ PutImageAuth(i)
    \/ PutImageMulter(i)
    \/ PutImageGetOne(i)
    \/ PutImageSharp(i)
    \/ PutImageUpdate(i)
    \/ PutImageDone(i)
    \/ DeleteImageAuth(i)
    \/ DeleteImageDelete(i)
    \/ DeleteImageDone(i)

\* the requests of a run with every route: MaxLive of them, the GETs for one
\* user and one size
LiveGetAvatar(i) == started < MaxLive /\ GetAvatarArrives(i, LiveIds, LiveSizes, {"false"})
LivePostAvatar(i) == started < MaxLive /\ PostAvatarStart(i)
LiveDeleteAvatar(i) == started < MaxLive /\ DeleteAvatarStart(i)
LiveGetImage(i) == started < MaxLive /\ GetImageArrives(i, LiveSizes)
LivePutImage(i) == started < MaxLive /\ PutImageStart(i)
LiveDeleteImage(i) == started < MaxLive /\ DeleteImageStart(i)

NextLive ==
    \E i \in Slots :
        \/ LiveGetAvatar(i)
        \/ LivePostAvatar(i)
        \/ LiveDeleteAvatar(i)
        \/ LiveGetImage(i)
        \/ LivePutImage(i)
        \/ LiveDeleteImage(i)
        \/ Continues(i)

\* every call a handler run waits for returns or throws in the end
SpecLive == Init /\ [][NextLive]_vars /\ \A i \in Slots : WF_vars(Continues(i))

\* ------------------------------------------- the key functions on their own
\* ids and sizes a URL can carry: Express takes any :userId and any ?size=
KeyIds == {"u1", "u12", "u1-x"}
KeySizes == {"small", "medium", "large", "original", "thumb", "x-small"}

InitKey ==
    /\ imageCache = << >>
    /\ users = [u \in RecordIds |-> fileName(0)]
    /\ uploads = 0
    /\ authStore = [token |-> "", model |-> NoModel]
    /\ req = [i \in Slots |-> Idle]
    /\ started = 0
    /\ last = NoResponse
    /\ asked = {}
    /\ images = [m \in ImageIds |-> imageName(0)]
    /\ env = "production"
    /\ \E r1 \in KeyIds, r2 \in KeyIds, v1 \in KeySizes, v2 \in KeySizes :
         probe = [NoProbe EXCEPT !.r1 = r1, !.v1 = v1, !.r2 = r2, !.v2 = v2]

\* the two cache keys are built, and the first is matched against the second id
ApplyKeys ==
    /\ ~probe.applied
    /\ probe' = [probe EXCEPT !.applied = TRUE,
                              !.key1 = makeKey(probe.r1, probe.v1),
                              !.key2 = makeKey(probe.r2, probe.v2),
                              !.belongs = belongsTo(makeKey(probe.r1, probe.v1), probe.r2)]
    /\ UNCHANGED <<imageCache, users, uploads, authStore, req, started, last, asked,
                   images, env>>

NextKey == ApplyKeys

SpecKey == InitKey /\ [][NextKey]_vars

\* ------------------------------------------------------------ step shapes
\* slot i sends its response in this step: last' is that response
Answers(i) == req[i].kind # "idle" /\ req'[i].kind = "idle"

\* a request is answered in the step it arrives in: last' is that response
AnswersAtOnce == started' = started + 1 /\ req' = req

\* a request of this kind for this id arrives and suspends in slot i
Suspends(i, kind, id) ==
    req[i].kind = "idle" /\ req'[i].kind = kind /\ req'[i].id = id

\* the names the sizes table has
SizeNames == {"small", "medium", "large", "original"}

\* the await a GET handler run is at, in the order of the code
pcRank(pc) ==
    CASE pc = "getOne" -> 1
      [] pc = "fetch" -> 2
      [] pc = "sharp" -> 3
      [] OTHER -> 0

\* ----------------------------------------------------------------- claims
\* C1: once a successful avatar upload for user u has been answered, the cache
\* holds no entry for any variant of u.
C1_UploadLeavesNoVariant ==
    (last.kind = "postAvatar" /\ last.status = 200)
        => \A size \in SizesAsked : ~cacheHas(imageCache, makeKey(last.id, size))

\* C2: the invalidation of an avatar delete leaves no entry for any variant of
\* the resource, and a GET for the resource that arrives next is not a HIT.
C2_InvalidateRemovesAllVariants ==
    [][ /\ (last'.kind = "deleteAvatar" /\ last'.status = 200)
            => \A size \in SizesAsked : ~cacheHas(imageCache', makeKey(last'.id, size))
        /\ (last.kind = "deleteAvatar" /\ last.status = 200)
            => ~(AnswersAtOnce /\ last'.kind = "getAvatar" /\ last'.id = last.id)
      ]_vars

\* an avatar delete has answered 200 after it took two variants of its user out
C2_Witness ==
    /\ last.kind = "deleteAvatar" /\ last.status = 200
    /\ \E s1 \in SizesAsked, s2 \in SizesAsked :
         /\ s1 # s2
         /\ {makeKey(last.id, s1), makeKey(last.id, s2)} \subseteq last.notes.removed

\* C3: the invalidation of resource r keeps every entry of another resource id,
\* key and bytes, also when r is a proper prefix of that id.
C3_InvalidateKeepsOtherResources ==
    [][ \A i \in Slots :
          (req[i].kind = "deleteAvatar" /\ Answers(i) /\ last'.status = 200)
            => \A r2 \in UrlIds \ {req[i].id}, size \in SizesAsked :
                 cacheHas(imageCache, makeKey(r2, size))
                   => /\ cacheHas(imageCache', makeKey(r2, size))
                      /\ imageCache'[makeKey(r2, size)] = imageCache[makeKey(r2, size)]
      ]_vars

\* C4: belongsTo(makeKey(r1, v), r2) is true exactly when r1 = r2.
C4_BelongsToIffSameResource ==
    probe.applied => (probe.belongs <=> probe.r1 = probe.r2)

\* C5: makeKey is injective: two different (resourceId, variant) pairs never
\* give the same key.
C5_MakeKeyInjective ==
    (probe.applied /\ <<probe.r1, probe.v1>> # <<probe.r2, probe.v2>>)
        => probe.key1 # probe.key2

\* C6: the first GET for (r, v) is never a HIT, and a GET for (r, v) that
\* arrives right after a successful GET for (r, v) was answered is a HIT with
\* the bytes of that answer.
C6_FirstMissThenHit ==
    [][ /\ (AnswersAtOnce /\ last'.kind = "getAvatar")
            => <<last'.id, last'.size>> \in asked
        /\ (last.kind = "getAvatar" /\ last.status = 200)
            => /\ \A i \in Slots :
                    ~(Suspends(i, "getAvatar", last.id) /\ req'[i].size = last.size)
               /\ (AnswersAtOnce /\ last'.kind = "getAvatar"
                     /\ last'.id = last.id /\ last'.size = last.size)
                    => (last'.xcache = "HIT" /\ last'.body = last.body)
      ]_vars

\* a GET has been answered from the cache
C6_Witness ==
    last.kind = "getAvatar" /\ last.xcache = "HIT" /\ last.body # NoBody

\* C7 as claimed: a GET for a record that has no stored original is answered
\* 404 (here: the GETs that arrive while no other request is in flight and
\* are answered on arrival).
C7_NoOriginalIsNotFound ==
    [][ (AnswersAtOnce /\ last'.kind = "getAvatar" /\ users[last'.id] = ""
           /\ \A j \in Slots : req[j].kind = "idle")
            => last'.status = 404
      ]_vars

\* C7 as amended: a GET that misses the cache and whose record lookup returns a
\* record with no stored original is answered 404 and inserts no entry; when
\* the lookup itself throws the answer is 500, and no entry is inserted either.
C7_MissWithoutOriginalIsNotFound ==
    [][ \A i \in Slots :
          (req[i].kind = "getAvatar" /\ req[i].pc = "getOne" /\ users[req[i].id] = "")
            => /\ getOneReturns(i, TRUE)
                    => (Answers(i) /\ last'.status = 404 /\ imageCache' = imageCache)
               /\ req'[i] # req[i]
                    => (Answers(i) /\ last'.status \in {404, 500}
                          /\ imageCache' = imageCache)
      ]_vars

\* a GET for a user whose avatar field is empty has been answered 404
C7_Witness ==
    last.kind = "getAvatar" /\ last.status = 404 /\ users[last.id] = ""

\* C8: a GET handler run that does not end in a 200 never changes the cache,
\* and it never goes back to an await it has passed.
C8_FailedMissInsertsNothing ==
    [][ \A i \in Slots :
          (req[i].kind = "getAvatar" /\ req'[i] # req[i])
            => /\ ~(Answers(i) /\ last'.status = 200) => imageCache' = imageCache
               /\ ~Answers(i) => pcRank(req'[i].pc) > pcRank(req[i].pc)
      ]_vars

\* a GET has failed with 500 while another entry was cached
C8_Witness ==
    last.kind = "getAvatar" /\ last.status = 500 /\ DOMAIN imageCache # {}

\* C9: a size that is no name of the table is served as medium is: it is a HIT
\* exactly when medium is, with the same bytes.
C9_UnknownSizeIsMedium ==
    \A id \in UrlIds, s \in SizesAsked \ SizeNames :
        /\ cacheHas(imageCache, makeKey(id, s)) <=> cacheHas(imageCache, makeKey(id, "medium"))
        /\ (cacheHas(imageCache, makeKey(id, s)) /\ cacheHas(imageCache, makeKey(id, "medium")))
             => imageCache[makeKey(id, s)] = imageCache[makeKey(id, "medium")]

\* the dimension the documentation gives each size name; null: not resized
documentedTarget(size) ==
    CASE size = "small" -> 100
      [] size = "medium" -> 300
      [] size = "large" -> 600
      [] OTHER -> null

\* C10: the bytes of a MISS are resized to 100, 300, 600 for small, medium,
\* large and are not resized for original.
C10_TargetPerVariant ==
    (last.kind = "getAvatar" /\ last.xcache = "MISS" /\ last.size \in SizeNames)
        => last.body.resized = documentedTarget(last.size)

C12_InvalidateIdempotent ==
    [][ \A i \in Slots :
          (req[i].kind = "deleteAvatar" /\ Answers(i) /\ last'.status = 200)
            => /\ clearCacheByPrefix(imageCache', req[i].id) = imageCache'
               /\ (\A k \in DOMAIN imageCache : ~belongsTo(k, req[i].id))
                    => imageCache' = imageCache
      ]_vars

\* an avatar delete has answered 200 and found nothing to remove in a cache
\* that holds entries
C12_Witness ==
    /\ last.kind = "deleteAvatar" /\ last.status = 200
    /\ last.notes.removed = {}
    /\ DOMAIN imageCache # {}

\* C15: a GET answered 200 as a MISS stores its bytes under the key of its
\* (userId, size) and changes no other entry, so the variants of a user are
\* cached side by side.
C15_MissInsertsOneEntry ==
    [][ \A i \in Slots :
          (req[i].kind = "getAvatar" /\ Answers(i) /\ last'.status = 200)
            => LET k == makeKey(req[i].id, req[i].size)
               IN  /\ DOMAIN imageCache' = DOMAIN imageCache \cup {k}
                   /\ imageCache'[k] = last'.body
                   /\ \A c \in DOMAIN imageCache \ {k} : imageCache'[c] = imageCache[c]
      ]_vars

\* a MISS has been answered while another variant of the same user stays cached
C15_Witness ==
    /\ last.kind = "getAvatar" /\ last.status = 200 /\ last.xcache = "MISS"
    /\ cacheHas(imageCache, makeKey(last.id, last.size))
    /\ \E s2 \in SizesAsked \ {last.size} : cacheHas(imageCache, makeKey(last.id, s2))

\* ------------------------------------------- claims on the public routes
\* a response is sent in this step
AnswersNow == AnswersAtOnce \/ \E i \in Slots : Answers(i)

\* the routes that serve images out of the cache
GetKinds == {"getAvatar", "getImageFile"}

\* the cache key of the GET that response a answers
keyOf(a) == IF a.kind = "getAvatar" THEN makeKey(a.id, a.size) ELSE makeImageKey(a.id, a.size)

\* C14: a GET served as a HIT is answered in the step it arrives in, before
\* any call to PocketBase, with the bytes stored under its key, and the step
\* leaves the cache, the records and the auth store as they were.
C14_HitTouchesNothing ==
    [][ (AnswersNow /\ last'.xcache = "HIT")
            => /\ AnswersAtOnce
               /\ last'.kind \in GetKinds
               /\ cacheHas(imageCache, keyOf(last'))
               /\ last'.body = imageCache[keyOf(last')]
               /\ imageCache' = imageCache
               /\ users' = users /\ images' = images /\ authStore' = authStore
      ]_vars

\* an image file has been served from the cache, which also holds an avatar
C14_Witness ==
    /\ last.kind = "getImageFile" /\ last.xcache = "HIT"
    /\ \E id \in PublicIds, size \in PublicSizes : cacheHas(imageCache, makeKey(id, size))

\* C16: an avatar GET sent with download=true and answered 200 carries
\* Content-Disposition: attachment with the file name of the user, as a HIT
\* and as a MISS.
C16_DownloadHasDisposition ==
    (last.kind = "getAvatar" /\ last.status = 200 /\ last.notes.download = "true")
        => last.headers.disposition = "attachment; filename=\"avatar-" \o last.id \o ".webp\""

\* C17: a 200 of a GET is marked HIT exactly when it is answered on arrival
\* with the cached bytes, MISS exactly when it is answered after the fetch and
\* the transform of its own run, and its Content-Length is the length of the
\* body sent.
C17_MarkerAndLength ==
    [][ (AnswersNow /\ last'.kind \in GetKinds /\ last'.status = 200)
            => /\ last'.headers.length = byteLength(last'.body)
               /\ last'.xcache \in {"HIT", "MISS"}
               /\ last'.xcache = "HIT"
                    <=> (AnswersAtOnce /\ last'.body = imageCache[keyOf(last')])
               /\ last'.xcache = "MISS"
                    <=> \E i \in Slots :
                          /\ Answers(i) /\ req[i].pc = "sharp"
                          /\ req[i].buf = original(req[i].id, req[i].avatar)
                          /\ last'.body.file = req[i].avatar
                          /\ last'.body.resized = targetSize(req[i].size)
      ]_vars

\* a resized avatar has been sent as a MISS with the length of its bytes
C17_Witness ==
    /\ last.kind = "getAvatar" /\ last.status = 200 /\ last.xcache = "MISS"
    /\ last.body.resized = targetSize(last.size)
    /\ last.headers.length = byteLength(last.body)
    /\ last.headers.length # byteLength(original(last.id, last.body.file))

\* C18: a GET that fails is answered 404 exactly when the record or its file
\* is missing, and 500 exactly when PocketBase, the fetch or the transform
\* failed.
C18_FailureKinds ==
    [][ \A i \in Slots :
          (req[i].kind \in GetKinds /\ Answers(i) /\ last'.status # 200)
            => LET records == IF req[i].kind = "getAvatar" THEN users ELSE images
               IN  /\ last'.status \in {404, 500}
                   /\ last'.notes.cause \in {"NoRecord", "NoOriginal", "Upstream", "Transform"}
                   /\ last'.status = 404 <=> last'.notes.cause \in {"NoRecord", "NoOriginal"}
                   /\ last'.status = 500 <=> last'.notes.cause \in {"Upstream", "Transform"}
                   /\ last'.notes.cause = "NoRecord" => req[i].id \notin DOMAIN records
                   /\ last'.notes.cause = "NoOriginal"
                        => (req[i].id \in DOMAIN records /\ records[req[i].id] = "")
                   /\ req[i].pc \in {"fetch", "sharp"} => last'.status = 500
      ]_vars

\* a GET for an id PocketBase does not hold has been answered 404
C18_Witness ==
    /\ last.kind = "getAvatar" /\ last.status = 404
    /\ last.notes.cause = "NoRecord"
    /\ last.id \notin DOMAIN users

\* C19: a response carries the caught error's message or data only when the
\* process does not run in production.
C19_DetailsOnlyOutsideProduction ==
    last.headers.details => env # "production"

\* C20: a request other than an avatar GET that arrives without a token is
\* answered 401 in the step it arrives in, never reaches its handler, and
\* leaves the cache and the records as they were.  (A request answered in the
\* step it arrives in carries no token: authenticateToken suspends every
\* request that has one, and the clients of the public routes send none.)
C20_NoTokenIsRejected ==
    [][ /\ \A i \in Slots :
             ~(/\ req[i].kind = "idle"
               /\ req'[i].kind \notin {"idle", "getAvatar"}
               /\ req'[i].token = "")
        /\ (AnswersAtOnce /\ last'.kind # "getAvatar")
             => /\ last'.status = 401
                /\ imageCache' = imageCache /\ users' = users /\ images' = images
      ]_vars

\* ------------------------------------- claims on permissions and staleness
\* the user the token of the request in slot i stands for
requester(i) == tokenModel(req[i].token)

\* the avatar routes that change the stored original
AvatarMutations == {"postAvatar", "deleteAvatar"}

\* C21: an upload or a delete for the avatar of user u, sent by an
\* authenticated user who is neither u nor an administrator, is answered 403
\* and changes neither the stored original nor any cache entry.
C21_StrangerIsForbidden ==
    [][ \A i \in Slots :
          (/\ req[i].kind \in AvatarMutations /\ Answers(i)
           /\ last'.status # 401
           /\ requester(i).id # req[i].id /\ ~truthy(requester(i).admin))
            => /\ last'.status = 403
               /\ users' = users /\ imageCache' = imageCache
      ]_vars

\* C23: the store step of a GET writes the bytes of the file its own lookup
\* read, whatever the record names by then: a GET that read the original
\* before a delete committed and stores after the delete's invalidation ran
\* leaves an entry for a record that has no file any more.
C23_StoreWritesWhatItRead ==
    [][ \A i \in Slots :
          (req[i].kind = "getAvatar" /\ req[i].pc = "sharp" /\ users[req[i].id] # req[i].avatar)
            => LET k == makeKey(req[i].id, req[i].size)
               IN  (Answers(i) /\ last'.status = 200)
                     => (cacheHas(imageCache', k) /\ imageCache'[k].file = req[i].avatar)
      ]_vars

\* every request is answered, the record of a user has no file after a delete
\* whose invalidation has run, and the cache holds the entry that the last
\* response, a MISS, stored for that user
C23_Witness ==
    /\ \A i \in Slots : req[i].kind = "idle"
    /\ last.kind = "getAvatar" /\ last.status = 200 /\ last.xcache = "MISS"
    /\ users[last.id] = ""
    /\ cacheHas(imageCache, makeKey(last.id, last.size))
    /\ imageCache[makeKey(last.id, last.size)].file # users[last.id]

C25_EntryReadOnly ==
    [][ \A k \in DOMAIN imageCache \cap DOMAIN imageCache' :
          imageCache'[k] = imageCache[k]
      ]_vars

\* C25 as amended: the bytes stored under a key change, while the key stays in
\* the cache, only in the store step of a GET for that key that missed, which
\* puts its own output in their place; an upload, a delete and every other
\* step leave the bytes of the entries they keep as they were.
C25_EntryChangesOnlyByStore ==
    [][ \A k \in DOMAIN imageCache \cap DOMAIN imageCache' :
          imageCache'[k] # imageCache[k]
            => \E i \in Slots :
                 /\ req[i].kind = "getAvatar" /\ Answers(i)
                 /\ last'.status = 200 /\ last'.xcache = "MISS"
                 /\ k = makeKey(req[i].id, req[i].size)
                 /\ imageCache'[k] = last'.body
      ]_vars

\* a MISS has stored its bytes over other bytes, after an upload was answered
C25_Witness ==
    /\ last.kind = "getAvatar" /\ last.status = 200 /\ last.xcache = "MISS"
    /\ last.notes.changed
    /\ imageCache[makeKey(last.id, last.size)] = last.body
    /\ users[last.id] # fileName(0)

\* C27: no GET waits for, or joins, another GET for its key: every GET that
\* missed on arrival is answered 200 only out of its own transform of the
\* bytes its own fetch returned, and stores them under the key whether or not
\* another GET has stored an entry there meanwhile.
C27_NoSingleFlight ==
    [][ \A i \in Slots :
          (req[i].kind = "getAvatar" /\ Answers(i) /\ last'.status = 200)
            => LET k == makeKey(req[i].id, req[i].size)
               IN  /\ req[i].pc = "sharp"
                   /\ last'.xcache = "MISS"
                   /\ req[i].buf = original(req[i].id, req[i].avatar)
                   /\ last'.body = transform(req[i].buf, targetSize(req[i].size), "cover")
                   /\ imageCache' = cacheSet(imageCache, k, last'.body)
                   /\ last'.notes.again = cacheHas(imageCache, k)
      ]_vars

\* two GETs for one key are all the requests there were, both missed, and the
\* second has written over the entry of the first
C27_Witness ==
    /\ started = 2
    /\ last.kind = "getAvatar" /\ last.status = 200 /\ last.xcache = "MISS"
    /\ last.notes.again
    /\ DOMAIN imageCache = {makeKey(last.id, last.size)}

\* C28: when a handler places its storage call, req.user is the record of the
\* request's own token and the shared auth store holds that token.
C28_StorageCallUsesOwnToken ==
    [][ \A i \in Slots :
          (req'[i].pc = "update" /\ req[i].pc # "update")
            => /\ req'[i].user = tokenModel(req'[i].token)
               /\ authStore'.token = req'[i].token
      ]_vars

\* C30: the derivatives of avatars and of admin images are kept apart in the
\* shared cache: a 200 of an avatar GET carries bytes that the avatar route
\* made for its user, and a 200 of an image GET bytes that the image route
\* made for its image.
C30_AvatarsAndImagesApart ==
    /\ (last.kind = "getAvatar" /\ last.status = 200)
         => (last.body.fit = "cover" /\ last.body.id = last.id)
    /\ (last.kind = "getImageFile" /\ last.status = 200)
         => (last.body.fit = "inside" /\ last.body.id = last.id)

\* C22: a logout request leaves the shared auth store as it was.
C22_LogoutKeepsAuthStore ==
    [][ \A i \in Slots :
          ((req[i].kind = "logout" \/ req'[i].kind = "logout") /\ req'[i] # req[i])
            => authStore' = authStore
      ]_vars

\* the routes that decide on the admin field of req.user
AdminGated == {"deleteAvatar", "getUser", "deleteImage"}

\* C29: for every value of the admin field, the avatar handlers and
\* authorizeUserAccess let a user act on another user's resource exactly when
\* requireAdmin takes the user for an administrator.
C29_AdminDecisionAgrees ==
    [][ \A i \in Slots :
          (/\ req[i].kind \in AdminGated /\ req[i].pc = "authRefresh"
           /\ req'[i] # req[i]
           /\ ~(Answers(i) /\ last'.status = 401)
           /\ requester(i).id # req[i].id)
            => ((Answers(i) /\ last'.status = 403) <=> ~isAdmin(requester(i)))
      ]_vars

\* C31: every key of the cache is the key of one of the four variants of a
\* resource, so no resource has more than four entries, whatever size strings
\* the requests carry.
C31_KeysAreRecognizedVariants ==
    /\ \A k \in DOMAIN imageCache :
         \E id \in UrlIds, v \in SizeNames : k = makeKey(id, v)
    /\ \A id \in UrlIds :
         Cardinality({k \in DOMAIN imageCache :
                        \E size \in SizesAsked : k = makeKey(id, size)}) <= 4

\* C33: every request to a get, upload, update or delete handler is answered
\* in the end, and answered once: a step of its run either suspends it at a
\* later call and sends nothing, or sends its response and ends the run, and
\* a slot is taken again only by a new request.
C33_OneResponseEach ==
    /\ [][ \A i \in Slots :
             /\ (req[i].kind # "idle" /\ req'[i] # req[i])
                  => \/ /\ Answers(i)
                        /\ last'.kind = req[i].kind /\ last'.id = req[i].id
                        /\ last'.status \in {200, 400, 401, 403, 404, 500}
                        /\ \A j \in Slots \ {i} : req'[j] = req[j]
                     \/ /\ req'[i].kind = req[i].kind /\ req'[i].id = req[i].id
                        /\ req'[i].pc # req[i].pc
                        /\ last' = last
             /\ (req[i].kind = "idle" /\ req'[i] # req[i]) => started' = started + 1
             /\ (req'[i] = req[i] /\ started' = started) => (last' = last \/ \E j \in Slots : Answers(j))
       ]_vars
    /\ \A i \in Slots : (req[i].kind # "idle") ~> (req[i].kind = "idle")

\* every request there was has been answered, the last of them an image
\* update whose storage call failed
C33_Witness ==
    /\ started = MaxLive
    /\ \A i \in Slots : req[i].kind = "idle"
    /\ last.kind = "putImage" /\ last.status = 500

\* ---------------------------------------- claims on the admin image routes
\* the handlers that change or delete the stored file of a record
MutatingKinds == {"postAvatar", "deleteAvatar", "putImage", "deleteImage"}

\* C32: an image update that carries no file changes the cache in none of its
\* steps, and one that carries a file and is answered 200 leaves no entry of
\* its image in the cache.
C32_UpdateInvalidatesWithFileOnly ==
    [][ \A i \in Slots :
          (req[i].kind = "putImage" /\ req'[i] # req[i])
            => /\ req[i].file # "image" => imageCache' = imageCache
               /\ (req[i].file = "image" /\ Answers(i) /\ last'.status = 200)
                    => \A k \in DOMAIN imageCache' : ~startsWith(k, imagePrefix(req[i].id))
      ]_vars

\* C26: an entry leaves the cache only in a step of an upload, update or
\* delete handler run, and a request that fails has removed no entry.
C26_OnlyMutationsRemove ==
    [][ /\ DOMAIN imageCache \ DOMAIN imageCache' # {}
             => \E i \in Slots : req[i].kind \in MutatingKinds /\ req'[i] # req[i]
        /\ (AnswersNow /\ last'.status # 200) => last'.notes.removed = {}
      ]_vars

\* C13: a handler that changes or deletes a stored file takes entries out of
\* the cache only in the step in which its storage call has returned and its
\* response is sent, never in a step before PocketBase has made the change.
C13_InvalidateAfterCommit ==
    [][ \A i \in Slots :
          (req[i].kind \in MutatingKinds /\ req'[i] # req[i] /\ imageCache' # imageCache)
            => (req[i].pc \in {"updated", "deleted"} /\ Answers(i))
      ]_vars

====
